---- MODULE Spec2Model ----
(***************************************************************************)
(* Control-allocation optimisation of PsyNeuLink.                          *)
(*                                                                         *)
(*  - Controller (library/mechanisms/adaptive/control/controller.py):      *)
(*    the grid-search control cycle  _execute -> get_allocation_policies,  *)
(*    run_simulations / run_simulation, function.                          *)
(*  - LVOCControlMechanism.gradient_ascent                                 *)
(*    (library/subsystems/lvoc/lvoccontrolmechanism.py).                   *)
(*                                                                         *)
(* Allocations, outcomes and costs are floats in the program; they are     *)
(* integers here (every operation used on them is +, -, *, comparison).    *)
(***************************************************************************)
EXTENDS Integers, Sequences, FiniteSets, TLC

(***************************************************************************)
(* Bounds of the model.                                                    *)
(***************************************************************************)
MaxAlloc == 3        \* allocation samples are drawn from 0..MaxAlloc
MaxSamples == 3      \* longest allocation_samples list of one ControlSignal
MaxTrials == 2       \* largest num_trials returned by before_simulations
MaxCycles == 2       \* real control cycles explored
RaiseAt == 2         \* scenario C: the agent raises on an allocation >= RaiseAt
OutcomeConst == 10   \* scenario B: the constant outcome
MaxIterations == 3   \* largest max_iterations of gradient_ascent
MaxCriterion == 1    \* largest convergence_criterion of gradient_ascent
MaxCost == 2         \* largest cost a ControlSignal computes
MaxOutcome == 3      \* largest outcome of a ControlMechanism
MaxInput == 1        \* largest input of a ContrastiveHebbianMechanism
MaxExecutions == 6   \* executions of a ContrastiveHebbianMechanism explored
MaxVal == 2          \* elements of OneHot's variable are in -MaxVal..MaxVal
ProbUnits == 2       \* probabilities are multiples of 1/ProbUnits
NumThreads == 2      \* threads that call get_next_sim_id
MaxCalls == 3        \* calls of get_next_sim_id explored, all threads together

\* program constants, as integers
EPSILON == 1         \* the smallest positive step of the number line
FloatMax == 1000000  \* np.finfo(np.float128).max: above every value reached

\* none, one (a size-1 array: its truth value is its element's) and several
\* ControlSignals (an array whose truth value is ambiguous)
SignalCounts == {0, 1, 2}
\* get_allocation_policies alone is explored up to three ControlSignals
MeshSignalCounts == {1, 2, 3}

Scenarios == {"A", "B", "C"}

\* gradient_ascent: one or two ControlSignals, one predictor
GASignalCounts == {1, 2}
WeightValues == {0, 1}
PredictorValues == {0, 1}
InitialControlValues == {0, 1}
CostFunctions == {"linear", "quadratic"}

(***************************************************************************)
(* Sequences and arrays.                                                   *)
(***************************************************************************)
RECURSIVE SumSeq(_)
SumSeq(s) == IF s = <<>> THEN 0 ELSE Head(s) + SumSeq(Tail(s))

RECURSIVE ProdSeq(_)
ProdSeq(s) == IF s = <<>> THEN 1 ELSE Head(s) * ProdSeq(Tail(s))

RECURSIVE SortedSeq(_)
SortedSeq(S) ==
    IF S = {} THEN <<>>
    ELSE LET m == CHOOSE x \in S : \A y \in S : x <= y
         IN  <<m>> \o SortedSeq(S \ {m})

Reverse(s) == [i \in 1..Len(s) |-> s[Len(s) + 1 - i]]

\* the multi-index (0-based) of the element at flat position n (0-based) of a
\* C-ordered array of the given shape, and back
RECURSIVE Unravel(_, _)
Unravel(n, shape) ==
    IF shape = <<>> THEN <<>>
    ELSE LET sz == ProdSeq(Tail(shape))
         IN  <<n \div sz>> \o Unravel(n % sz, Tail(shape))

RECURSIVE Ravel(_, _)
Ravel(ix, shape) ==
    IF shape = <<>> THEN 0
    ELSE Head(ix) * ProdSeq(Tail(shape)) + Ravel(Tail(ix), Tail(shape))

\* the axis of the meshgrid output along which list m varies: indexing='xy'
\* (numpy's default) swaps the first two axes when there are two lists or more
MeshAxis(m, k) == IF k >= 2 /\ m = 1 THEN 2 ELSE IF k >= 2 /\ m = 2 THEN 1 ELSE m

MeshShape(lens) ==
    IF Len(lens) >= 2
    THEN <<lens[2], lens[1]>> \o SubSeq(lens, 3, Len(lens))
    ELSE lens

\* np.array(np.meshgrid(*lists)): an array of shape (k, mesh shape);
\* np.array([]) for no list at all
MeshArray(lists) ==
    LET k    == Len(lists)
        lens == [i \in 1..k |-> Len(lists[i])]
        sh   == IF k = 0 THEN <<0>> ELSE <<k>> \o MeshShape(lens)
    IN  [shape |-> sh,
         data  |-> [n \in 1..ProdSeq(sh) |->
                      LET ix == Unravel(n - 1, sh)
                          m  == ix[1] + 1
                      IN  lists[m][ix[1 + MeshAxis(m, k)] + 1]]]

\* ndarray.T: the axes reversed
Transpose(arr) ==
    LET sh == Reverse(arr.shape)
    IN  [shape |-> sh,
         data  |-> [n \in 1..Len(arr.data) |->
                      arr.data[Ravel(Reverse(Unravel(n - 1, sh)), arr.shape) + 1]]]

\* ndarray.reshape(-1, cols): numpy cannot infer -1 beside a 0 and raises
Reshape(arr, cols) ==
    IF cols = 0 \/ Len(arr.data) % cols # 0
    THEN [ok |-> FALSE, rows |-> <<>>]
    ELSE [ok |-> TRUE,
          rows |-> [r \in 1..(Len(arr.data) \div cols) |->
                      SubSeq(arr.data, (r - 1) * cols + 1, r * cols)]]

\* a plausible slip: the transposition forgotten
get_allocation_policies_no_T(control_signal_sample_lists) ==
    Reshape(MeshArray(control_signal_sample_lists), Len(control_signal_sample_lists))

\* a plausible slip: the empty product taken as one (empty) policy instead of
\* numpy's error for no ControlSignal
get_allocation_policies_empty_product(control_signal_sample_lists) ==
    IF Len(control_signal_sample_lists) = 0
    THEN [ok |-> TRUE, rows |-> << <<>> >>]
    ELSE Reshape(Transpose(MeshArray(control_signal_sample_lists)),
                 Len(control_signal_sample_lists))

\* Controller.get_allocation_policies
get_allocation_policies(control_signal_sample_lists) ==
    Reshape(Transpose(MeshArray(control_signal_sample_lists)),
            Len(control_signal_sample_lists))

\* the truth value python gives a 1d numpy array in `if allocation_policy:`
ArrayTruth(a) ==
    IF Len(a) = 0 THEN "false"
    ELSE IF Len(a) = 1 THEN (IF a[1] # 0 THEN "true" ELSE "false")
    ELSE "error"

(***************************************************************************)
(* Configurations.                                                         *)
(***************************************************************************)
SampleLists ==
    {SortedSeq(S) : S \in {T \in SUBSET (0..MaxAlloc) : Cardinality(T) <= MaxSamples}}

SampleConfigs(counts) == UNION {[1..k -> SampleLists] : k \in counts}


(***************************************************************************)
(* State.                                                                  *)
(***************************************************************************)
VARIABLES
    \* ---- the grid-search Controller and its composition
    allocation_samples,          \* per ControlSignal: its allocation_samples
    scenario,                    \* the agent representation and cost options
    value,                       \* Controller.value: the control allocation
    control_signal_values,       \* the values of the ControlSignals (output states)
    monitored,                   \* objective_mechanism.output_values
    execution_phase,             \* composition.context.execution_phase
    simulation_results,          \* composition.simulation_results
    unique_id,                   \* the last id handed out by _get_unique_id
    execution_id,                \* run_simulation's execution_id
    pc,                          \* where the control cycle stands
    error,                       \* the exception that ended the cycle
    control_signal_search_space, \* Controller.control_signal_search_space
    idx,                         \* run_simulations: index of the next policy
    trial,                       \* run_simulation: index of the next trial
    num_trials,                  \* from before_simulations
    node_values,                 \* from before_simulations
    allocation_policy_outcomes,  \* run_simulation's list
    other_simulation_data,       \* run_simulation's list
    outcome_list,                \* run_simulations' list
    allocation_policy,           \* what function returned to _execute
    cycle,                       \* number of real trials started
    \* ---- history of the run
    real_before,                 \* the real state when run_simulations was called
    in_force,                    \* per real trial: the allocation it ran under
    search_results,              \* per completed search: the policy returned
    commit_log,                  \* per commit: its cycle and policy
    \* ---- costs across cycles and the record of a search
    compute_reconfiguration_cost, \* "None" or "Distance"
    previous_policy,             \* the policy applied on the previous real cycle
    reconfiguration_cost,        \* "None" or the cost of the last commit
    duration_cost,               \* per ControlSignal: its duration-cost accumulator
    duration_before,             \* duration_cost when run_simulations was called
    save_all_values_and_policies, \* whether every policy and value is saved
    EVC_policies,                \* the policies saved by the last search
    EVC_values,                  \* their values, in the same order
    \* ---- get_allocation_policies on its own
    mesh_lists, mesh_result, mesh_pc,
    \* ---- LVOCControlMechanism.gradient_ascent
    max_iterations,              \* self.max_iterations
    convergence_criterion,       \* self.convergence_criterion
    udpate_rate,                 \* self.udpate_rate (spelled as in the source)
    cost_function,               \* per ControlSignal: its intensity_cost_function
    prediction_weights,          \* fields pred, intrxn, ctl, cst
    prediction_vector,           \* fields pred, intrxn, ctl, cst
    convergence_metric, previous_lvoc, current_lvoc, j,
    ga_pc,                       \* the state of the ascent
    ga_warnings,                 \* warnings.warn calls so far
    ga_return,                   \* what gradient_ascent returned
    \* ---- the costs, outcome and net_outcome Parameters of a ControlMechanism
    cm_control_signals,          \* owning_component.control_signals
    cm_variable,                 \* owning_component.parameters.variable
    cm_reconfiguration_cost,     \* owning_component.parameters.reconfiguration_cost
    cm_costs,                    \* what reading parameters.costs gave
    cm_outcome,                  \* what reading parameters.outcome gave
    cm_net_outcome,              \* what reading parameters.net_outcome gave
    \* ---- a ContrastiveHebbianMechanism (one element)
    initialization_status,       \* context.initialization_status
    chm_execution_phase,         \* self.execution_phase: "None", "PLUS", "MINUS"
    is_finished,                 \* self.is_finished
    previous_mech_value,         \* self._previous_mech_value: "None" or "set"
    initial_value,               \* self.initial_value
    current_activity,            \* self.current_activity
    plus_phase_activity,         \* self.plus_phase_activity
    minus_phase_activity,        \* self.minus_phase_activity
    chm_last,                    \* the last execution: its phase, inputs, ...
    chm_executions,              \* number of executions so far
    chm_trials,                  \* number of trials finished so far
    \* ---- OneHot.function
    mode,                        \* self.mode
    oh_variable,                 \* the 1st item of variable: the array transformed
    prob_dist,                   \* PROB modes: the 2nd item of variable
    random_value,                \* PROB modes: np.random.uniform(), in units
    result,                      \* what function returned
    oh_pc,                       \* "call" before the call, "returned" after
    \* ---- ControlMechanism.get_next_sim_id called from several threads ----
    sim_count_lock,              \* the attribute __sim_count_lock: 0 while it is not
                                 \* set, else the Lock object it refers to
    sim_locks,                   \* Lock object -> the thread that holds it, 0 if free
    sim_counts,                  \* the dict _sim_counts: execution id -> count
    sim_threads,                 \* thread -> its position and locals in the call
    sim_ids                      \* the simulation ids returned so far, in order

costVars == <<compute_reconfiguration_cost, previous_policy, reconfiguration_cost,
              duration_cost, duration_before, save_all_values_and_policies,
              EVC_policies, EVC_values>>
ctlVars == <<allocation_samples, scenario, value, control_signal_values, monitored,
             execution_phase, simulation_results, unique_id, execution_id, pc, error,
             control_signal_search_space, idx, trial, num_trials, node_values,
             allocation_policy_outcomes, other_simulation_data, outcome_list,
             allocation_policy, cycle, real_before, in_force, search_results,
             commit_log, costVars>>
meshVars == <<mesh_lists, mesh_result, mesh_pc>>
gaVars == <<max_iterations, convergence_criterion, udpate_rate, cost_function,
            prediction_weights, prediction_vector, convergence_metric, previous_lvoc,
            current_lvoc, j, ga_pc, ga_warnings, ga_return>>
cmVars == <<cm_control_signals, cm_variable, cm_reconfiguration_cost, cm_costs,
           cm_outcome, cm_net_outcome>>
chmVars == <<initialization_status, chm_execution_phase, is_finished,
             previous_mech_value, initial_value, current_activity, plus_phase_activity,
             minus_phase_activity, chm_last, chm_executions, chm_trials>>
ohVars == <<mode, oh_variable, prob_dist, random_value, result, oh_pc>>
simVars == <<sim_count_lock, sim_locks, sim_counts, sim_threads, sim_ids>>
nonCtlVars == <<meshVars, gaVars, cmVars, chmVars, ohVars, simVars>>
vars == <<ctlVars, meshVars, gaVars, cmVars, chmVars, ohVars, simVars>>

(***************************************************************************)
(* The agent representation and the costs (the three scenarios).           *)
(*   A: outcome = the allocation itself, no cost                           *)
(*   B: outcome constant, cost of a signal = its allocation                *)
(*   C: as A, but the agent raises on an allocation >= RaiseAt             *)
(***************************************************************************)
AgentRaises(a) == scenario = "C" /\ \E i \in 1..Len(a) : a[i] >= RaiseAt

AgentOutcome(a) == IF scenario = "B" THEN OutcomeConst ELSE SumSeq(a)

SignalCost(x) == IF scenario = "B" THEN x ELSE 0

\* the costs aggregated (sum) over the signals of a policy
PolicyCost(p) == SumSeq([i \in 1..Len(p) |-> SignalCost(p[i])])

\* outcome minus aggregated cost
NetValue(outcome, cost) == outcome - cost

\* the net value a policy has when the agent really runs under it
TrueNetValue(p) == NetValue(AgentOutcome(p), PolicyCost(p))

DefaultAllocation(k) == [i \in 1..k |-> 1]

\* the largest integer whose square is at most n
ISqrt(n) == CHOOSE r \in 0..n : r * r <= n /\ (r + 1) * (r + 1) > n

\* the default compute_reconfiguration_cost: the Euclidean distance between two
\* allocations (on the integers: rounded down)
Distance(a, b) == ISqrt(SumSeq([i \in 1..Len(a) |-> (a[i] - b[i]) * (a[i] - b[i])]))

\* the duration cost of a ControlSignal integrates its cost each time the
\* ControlSignal is updated
UpdateDurationCost(acc, signal_values) ==
    [i \in 1..Len(acc) |-> acc[i] + SignalCost(signal_values[i])]

(***************************************************************************)
(* The default function of the Controller: exhaustive search over the      *)
(* simulation data, first-seen maximum; an empty space is an error.        *)
(***************************************************************************)
EVC(entry) ==
    NetValue(SumSeq(entry.outcomes) \div Len(entry.outcomes), PolicyCost(entry.policy))

GridSearch(simulation_data) ==
    IF simulation_data = <<>>
    THEN [ok |-> FALSE, policy |-> <<>>, evc |-> 0]
    ELSE LET n == Len(simulation_data)
             best == CHOOSE i \in 1..n :
                        /\ \A q \in 1..n : EVC(simulation_data[q]) <= EVC(simulation_data[i])
                        /\ \A q \in 1..(i - 1) :
                               EVC(simulation_data[q]) < EVC(simulation_data[i])
         IN  [ok |-> TRUE, policy |-> simulation_data[best].policy,
              evc |-> EVC(simulation_data[best])]

(***************************************************************************)
(* Initial states.                                                         *)
(***************************************************************************)
CtlInit(samples, scen, start, reconf, save) ==
    /\ allocation_samples = samples
    /\ scenario = scen
    /\ value = DefaultAllocation(Len(samples))
    /\ control_signal_values = DefaultAllocation(Len(samples))
    /\ monitored = 0
    /\ execution_phase = "PROCESSING"
    /\ simulation_results = <<>>
    /\ unique_id = 0
    /\ execution_id = 0
    /\ pc = start
    /\ error = "none"
    /\ control_signal_search_space = <<>>
    /\ idx = 0
    /\ trial = 0
    /\ num_trials = 0
    /\ node_values = 0
    /\ allocation_policy_outcomes = <<>>
    /\ other_simulation_data = <<>>
    /\ outcome_list = <<>>
    /\ allocation_policy = <<>>
    /\ cycle = 0
    /\ real_before = [value |-> <<>>, control_signal_values |-> <<>>, monitored |-> 0]
    /\ in_force = <<>>
    /\ search_results = <<>>
    /\ commit_log = <<>>
    /\ compute_reconfiguration_cost = reconf
    /\ previous_policy = DefaultAllocation(Len(samples))
    /\ reconfiguration_cost = "None"
    /\ duration_cost = [i \in 1..Len(samples) |-> 0]
    /\ duration_before = [i \in 1..Len(samples) |-> 0]
    /\ save_all_values_and_policies = save
    /\ EVC_policies = <<>>
    /\ EVC_values = <<>>

CtlIdle == CtlInit(<<>>, "A", "idle", "None", FALSE)

MeshIdle == mesh_lists = <<>> /\ mesh_result = [ok |-> FALSE, rows |-> <<>>] /\ mesh_pc = "idle"

EmptyVector == [pred |-> <<>>, intrxn |-> <<>>, ctl |-> <<>>, cst |-> <<>>]

NotReturned == [returned |-> FALSE, control_signal_values |-> <<>>]

GAIdle ==
    /\ max_iterations = 0
    /\ convergence_criterion = 0
    /\ udpate_rate = 0
    /\ cost_function = <<>>
    /\ prediction_weights = EmptyVector
    /\ prediction_vector = EmptyVector
    /\ convergence_metric = 0
    /\ previous_lvoc = 0
    /\ current_lvoc = 0
    /\ j = 0
    /\ ga_pc = "idle"
    /\ ga_warnings = <<>>
    /\ ga_return = NotReturned

(***************************************************************************)
(* Python values of the ControlMechanism's Parameters: a number, inf,      *)
(* -inf, None, a list of numbers, or an exception leaving the call.        *)
(***************************************************************************)
Num(x) == [k |-> "num", n |-> x, items |-> <<>>]

Inf == [k |-> "inf", n |-> 0, items |-> <<>>]

NegInf == [k |-> "-inf", n |-> 0, items |-> <<>>]

None == [k |-> "None", n |-> 0, items |-> <<>>]

List(items) == [k |-> "list", n |-> 0, items |-> items]

Raise(exception) == [k |-> exception, n |-> 0, items |-> <<>>]

NotRead == [k |-> "not read", n |-> 0, items |-> <<>>]

CMIdle ==
    /\ cm_control_signals = [k |-> "list", items |-> <<>>]
    /\ cm_variable = None
    /\ cm_reconfiguration_cost = None
    /\ cm_costs = NotRead
    /\ cm_outcome = NotRead
    /\ cm_net_outcome = NotRead

SimThreads == 1..NumThreads

NotCalling == [pc |-> "idle", execution_id |-> "None", lock |-> 0, sim_num |-> 0,
               count |-> 0]

\* __init__: _sim_counts = {}, and no __sim_count_lock attribute yet
SimIdle ==
    /\ sim_count_lock = 0
    /\ sim_locks = [l \in SimThreads |-> 0]
    /\ sim_counts = <<>>
    /\ sim_threads = [t \in SimThreads |-> NotCalling]
    /\ sim_ids = <<>>

OneHotIdle ==
    /\ mode = "MAX_VAL"
    /\ oh_variable = <<>>
    /\ prob_dist = <<>>
    /\ random_value = 0
    /\ result = <<>>
    /\ oh_pc = "idle"

NoExecution == [phase |-> "None", converged |-> FALSE, returned_early |-> FALSE,
                external |-> 0, recurrent |-> 0, combination_raised |-> FALSE,
                function_variable |-> 0, activity |-> 0]

CHMIdle ==
    /\ initialization_status = "idle"
    /\ chm_execution_phase = "None"
    /\ is_finished = FALSE
    /\ previous_mech_value = "None"
    /\ initial_value = 0
    /\ current_activity = 0
    /\ plus_phase_activity = 0
    /\ minus_phase_activity = 0
    /\ chm_last = NoExecution
    /\ chm_executions = 0
    /\ chm_trials = 0

Init ==
    /\ \E samples \in SampleConfigs(SignalCounts), scen \in Scenarios,
          reconf \in {"None", "Distance"}, save \in BOOLEAN :
           CtlInit(samples, scen, "trial", reconf, save)
    /\ MeshIdle
    /\ GAIdle
    /\ CMIdle
    /\ CHMIdle
    /\ OneHotIdle
    /\ SimIdle

(***************************************************************************)
(* The getters of the Parameters costs, outcome and net_outcome of a       *)
(* ControlMechanism, with the default combine_costs and                    *)
(* compute_net_outcome (specification SpecCM).                             *)
(* A control signal is described by what its compute_costs does: it        *)
(* returns a number or inf, raises TypeError, raises another exception, or *)
(* is absent (a GatingSignal).                                             *)
(***************************************************************************)
SignalKinds ==
    {Num(x) : x \in 0..MaxCost} \cup
    {Inf, Raise("TypeError"), Raise("Exception"), Raise("GatingSignal")}

HasComputeCosts(c) == c.k # "GatingSignal"

\* the list comprehension of _control_mechanism_costs_getter: the first
\* compute_costs that raises ends it
FirstRaising(signals) ==
    LET raising == {i \in 1..Len(signals) : signals[i].k \in {"TypeError", "Exception"}}
    IN  IF raising = {} THEN 0 ELSE CHOOSE i \in raising : \A q \in raising : i <= q

control_mechanism_costs_getter(control_signals) ==
    IF control_signals.k = "None"
    THEN None
    ELSE LET signals == SelectSeq(control_signals.items, HasComputeCosts)
             r == FirstRaising(signals)
         IN  IF r = 0 THEN List(signals)
             ELSE IF signals[r].k = "TypeError" THEN None
             ELSE Raise("Exception")

outcome_getter(variable) == IF variable.k = "None" THEN None ELSE variable

\* combine_costs, by default np.sum
combine_costs(costs) ==
    IF costs.k # "list" THEN costs
    ELSE IF \E i \in 1..Len(costs.items) : costs.items[i].k = "inf" THEN Inf
    ELSE Num(SumSeq([i \in 1..Len(costs.items) |-> costs.items[i].n]))

\* a plausible slip: the cost added instead of subtracted
compute_net_outcome_plus(outcome, cost) ==
    IF outcome.k # "num" \/ cost.k \notin {"num", "inf"} THEN Raise("TypeError")
    ELSE IF cost.k = "inf" THEN Inf
    ELSE Num(outcome.n + cost.n)

\* compute_net_outcome, by default lambda outcome, cost: outcome - cost
compute_net_outcome(outcome, cost) ==
    IF outcome.k # "num" \/ cost.k \notin {"num", "inf"} THEN Raise("TypeError")
    ELSE IF cost.k = "inf" THEN NegInf
    ELSE Num(outcome.n - cost.n)

net_outcome_getter(variable, control_signals) ==
    LET outcome == outcome_getter(variable)
        costs   == control_mechanism_costs_getter(control_signals)
    IN  IF costs.k = "Exception" THEN costs
        ELSE LET r == compute_net_outcome(outcome, combine_costs(costs))
             IN  IF r.k = "TypeError" THEN List(<<Num(0)>>) ELSE r

ControlSignalLists ==
    {None} \cup {List(l) : l \in UNION {[1..k -> SignalKinds] : k \in 0..2}}

InitCM ==
    /\ CtlIdle
    /\ MeshIdle
    /\ GAIdle
    /\ CHMIdle
    /\ OneHotIdle
    /\ SimIdle
    /\ cm_control_signals \in ControlSignalLists
    /\ cm_variable \in {None} \cup {Num(x) : x \in 0..MaxOutcome}
    /\ cm_reconfiguration_cost \in {None} \cup {Num(x) : x \in 0..MaxCost}
    /\ cm_costs = NotRead
    /\ cm_outcome = NotRead
    /\ cm_net_outcome = NotRead

ReadCosts ==
    /\ cm_costs = NotRead
    /\ cm_costs' = control_mechanism_costs_getter(cm_control_signals)
    /\ UNCHANGED <<cm_control_signals, cm_variable, cm_reconfiguration_cost,
                   cm_outcome, cm_net_outcome,
                   ctlVars, meshVars, gaVars, chmVars, ohVars, simVars>>

ReadOutcome ==
    /\ cm_outcome = NotRead
    /\ cm_outcome' = outcome_getter(cm_variable)
    /\ UNCHANGED <<cm_control_signals, cm_variable, cm_reconfiguration_cost,
                   cm_costs, cm_net_outcome,
                   ctlVars, meshVars, gaVars, chmVars, ohVars, simVars>>

ReadNetOutcome ==
    /\ cm_net_outcome = NotRead
    /\ cm_net_outcome' = net_outcome_getter(cm_variable, cm_control_signals)
    /\ UNCHANGED <<cm_control_signals, cm_variable, cm_reconfiguration_cost,
                   cm_costs, cm_outcome,
                   ctlVars, meshVars, gaVars, chmVars, ohVars, simVars>>

NextCM ==
    \/ ReadCosts
    \/ ReadOutcome
    \/ ReadNetOutcome

SpecCM == InitCM /\ [][NextCM]_vars

FiniteCosts(control_signals) ==
    /\ control_signals.k = "list"
    /\ \A i \in 1..Len(control_signals.items) :
           control_signals.items[i].k \in {"num", "GatingSignal"}

CostOf(c) == IF c.k = "num" THEN c.n ELSE 0

\* C12: with the default functions net_outcome is the outcome minus the sum of
\* the costs of the control signals, for every list of costs; with no cost at
\* all (no control signal, or none that computes costs) it is the outcome.
C12_NetOutcomeIsOutcomeMinusCosts ==
    (cm_net_outcome # NotRead /\ cm_variable.k = "num" /\ FiniteCosts(cm_control_signals))
        => /\ cm_net_outcome =
                  Num(cm_variable.n -
                      SumSeq([i \in 1..Len(cm_control_signals.items) |->
                                 CostOf(cm_control_signals.items[i])]))
           /\ (\A i \in 1..Len(cm_control_signals.items) :
                   cm_control_signals.items[i].k = "GatingSignal")
                  => cm_net_outcome = cm_variable

C12_Witness ==
    /\ cm_net_outcome.k = "num"
    /\ cm_variable.k = "num"
    /\ Len(cm_control_signals.items) = 2
    /\ cm_control_signals.items[1] = Num(1)
    /\ cm_control_signals.items[2] = Num(2)
    /\ cm_net_outcome.n = cm_variable.n - 3

CostFails(control_signals) ==
    /\ control_signals.k = "list"
    /\ \E i \in 1..Len(control_signals.items) :
           control_signals.items[i].k \in {"inf", "TypeError", "Exception"}

\* C13: when a cost function raises or returns a non-finite value, the cost
\* counts as +inf: the net_outcome read is -inf, never a finite value standing
\* in for it (such as 0) and never a failure of the read.
C13_FailedCostIsInfinite ==
    (cm_net_outcome # NotRead /\ cm_variable.k = "num" /\ CostFails(cm_control_signals))
        => cm_net_outcome = NegInf

\* C21: when a reconfiguration cost has been computed, combine_costs combines it
\* with the costs of the control signals: the costs read hold it and the
\* net_outcome read is the outcome minus the sum of the signals' costs and the
\* reconfiguration cost.
C21_NetOutcomeIncludesReconfigurationCost ==
    (cm_reconfiguration_cost.k = "num" /\ cm_variable.k = "num"
        /\ FiniteCosts(cm_control_signals))
        => LET signal_costs == SumSeq([i \in 1..Len(cm_control_signals.items) |->
                                         CostOf(cm_control_signals.items[i])])
           IN  /\ cm_net_outcome # NotRead =>
                      cm_net_outcome =
                          Num(cm_variable.n - (signal_costs + cm_reconfiguration_cost.n))
               /\ cm_costs # NotRead =>
                      combine_costs(cm_costs) =
                          Num(signal_costs + cm_reconfiguration_cost.n)

(***************************************************************************)
(* One real trial of the composition: the network runs under the values    *)
(* of the ControlSignals, then the controller executes (it is the last     *)
(* Mechanism of the trial).                                                *)
(***************************************************************************)
RealTrial ==
    /\ pc = "trial"
    /\ cycle < MaxCycles
    /\ cycle' = cycle + 1
    /\ in_force' = Append(in_force, control_signal_values)
    /\ IF AgentRaises(control_signal_values)
       THEN /\ pc' = "error"
            /\ error' = "RunFailure"
            /\ UNCHANGED monitored
       ELSE /\ pc' = "execute"
            /\ monitored' = AgentOutcome(control_signal_values)
            /\ UNCHANGED error
    /\ UNCHANGED <<allocation_samples, scenario, value, control_signal_values,
                   execution_phase, simulation_results, unique_id, execution_id,
                   control_signal_search_space, idx, trial, num_trials, node_values,
                   allocation_policy_outcomes, other_simulation_data, outcome_list,
                   allocation_policy, real_before, search_results, commit_log,
                   nonCtlVars, costVars>>

(***************************************************************************)
(* Controller._execute, first statement:                                   *)
(*   self.control_signal_search_space = self.get_allocation_policies()     *)
(***************************************************************************)
Execute_GetPolicies ==
    /\ pc = "execute"
    /\ LET r == get_allocation_policies(allocation_samples)
       IN  IF r.ok
           THEN /\ control_signal_search_space' = r.rows
                /\ pc' = "before_simulations"
                /\ UNCHANGED error
           ELSE /\ pc' = "error"
                /\ error' = "ValueError"
                /\ UNCHANGED control_signal_search_space
    /\ UNCHANGED <<allocation_samples, scenario, value, control_signal_values,
                   monitored, execution_phase, simulation_results, unique_id,
                   execution_id, idx, trial, num_trials, node_values,
                   allocation_policy_outcomes, other_simulation_data, outcome_list,
                   allocation_policy, cycle, real_before, in_force, search_results,
                   commit_log, nonCtlVars, costVars>>

(***************************************************************************)
(* Controller.run_simulations, up to its loop:                             *)
(*   ..., num_trials, ..., node_values = self.composition.before_simulations() *)
(*   outcome_list = []                                                     *)
(***************************************************************************)
BeforeSimulations ==
    /\ pc = "before_simulations"
    /\ \E n \in 1..MaxTrials : num_trials' = n
    /\ node_values' = monitored
    /\ real_before' = [value |-> value,
                       control_signal_values |-> control_signal_values,
                       monitored |-> monitored]
    /\ duration_before' = duration_cost
    /\ outcome_list' = <<>>
    /\ idx' = 1
    /\ pc' = "run_simulations"
    /\ UNCHANGED <<allocation_samples, scenario, value, control_signal_values,
                   monitored, execution_phase, simulation_results, unique_id,
                   execution_id, error, control_signal_search_space, trial,
                   allocation_policy_outcomes, other_simulation_data,
                   allocation_policy, cycle, in_force, search_results, commit_log,
                   nonCtlVars, compute_reconfiguration_cost, previous_policy,
                   reconfiguration_cost, duration_cost, save_all_values_and_policies,
                   EVC_policies, EVC_values>>

\* Controller.apply_control_signal_values: self.value[i] = control_signal_values[i]
apply_control_signal_values(v, control_signal_values_arg) ==
    [i \in 1..Len(v) |->
        IF i <= Len(control_signal_values_arg) THEN control_signal_values_arg[i] ELSE v[i]]

\* a plausible slip: the execution id obtained once and used for every candidate
RunSimulation_Apply_keeps_id ==
    /\ pc = "run_simulations"
    /\ idx <= Len(control_signal_search_space)
    /\ LET p == control_signal_search_space[idx]
           t == ArrayTruth(p)
       IN  IF t = "error"
           THEN /\ pc' = "error"
                /\ error' = "ValueError"
                /\ UNCHANGED <<value, control_signal_values, duration_cost, unique_id,
                               execution_id, allocation_policy_outcomes,
                               other_simulation_data, trial>>
           ELSE /\ IF t = "true"
                   THEN /\ value' = apply_control_signal_values(value, p)
                        /\ control_signal_values' = apply_control_signal_values(value, p)
                        /\ duration_cost' =
                               UpdateDurationCost(duration_cost,
                                                  apply_control_signal_values(value, p))
                   ELSE UNCHANGED <<value, control_signal_values, duration_cost>>
                /\ unique_id' = unique_id + 1
                /\ execution_id' = IF execution_id = 0 THEN unique_id + 1 ELSE execution_id
                /\ allocation_policy_outcomes' = <<>>
                /\ other_simulation_data' = <<>>
                /\ trial' = 1
                /\ pc' = "run_simulation"
                /\ UNCHANGED error
    /\ UNCHANGED <<allocation_samples, scenario, monitored, execution_phase,
                   simulation_results, control_signal_search_space, idx, num_trials,
                   node_values, outcome_list, allocation_policy, cycle, real_before,
                   in_force, search_results, commit_log, nonCtlVars,
                   compute_reconfiguration_cost, previous_policy, reconfiguration_cost,
                   duration_before, save_all_values_and_policies, EVC_policies,
                   EVC_values>>

(***************************************************************************)
(* Controller.run_simulation, up to its loop over the trials:              *)
(*   if allocation_policy: self.apply_control_signal_values(...)           *)
(*   execution_id = self.composition._get_unique_id()                      *)
(***************************************************************************)
RunSimulation_Apply ==
    /\ pc = "run_simulations"
    /\ idx <= Len(control_signal_search_space)
    /\ LET p == control_signal_search_space[idx]
           t == ArrayTruth(p)
       IN  IF t = "error"
           THEN /\ pc' = "error"
                /\ error' = "ValueError"
                /\ UNCHANGED <<value, control_signal_values, duration_cost, unique_id,
                               execution_id, allocation_policy_outcomes,
                               other_simulation_data, trial>>
           ELSE /\ IF t = "true"
                   THEN /\ value' = apply_control_signal_values(value, p)
                        /\ control_signal_values' = apply_control_signal_values(value, p)
                        /\ duration_cost' =
                               UpdateDurationCost(duration_cost,
                                                  apply_control_signal_values(value, p))
                   ELSE UNCHANGED <<value, control_signal_values, duration_cost>>
                /\ unique_id' = unique_id + 1
                /\ execution_id' = unique_id + 1
                /\ allocation_policy_outcomes' = <<>>
                /\ other_simulation_data' = <<>>
                /\ trial' = 1
                /\ pc' = "run_simulation"
                /\ UNCHANGED error
    /\ UNCHANGED <<allocation_samples, scenario, monitored, execution_phase,
                   simulation_results, control_signal_search_space, idx, num_trials,
                   node_values, outcome_list, allocation_policy, cycle, real_before,
                   in_force, search_results, commit_log, nonCtlVars,
                   compute_reconfiguration_cost, previous_policy, reconfiguration_cost,
                   duration_before, save_all_values_and_policies, EVC_policies,
                   EVC_values>>

\* what run_simulation would be if it caught the agent's exception and
\* scored the candidate instead of letting the exception through
RunSimulation_Trial_catching ==
    /\ pc = "run_simulation"
    /\ trial <= num_trials
    /\ LET o == IF AgentRaises(control_signal_values)
                THEN 0 - OutcomeConst * OutcomeConst
                ELSE AgentOutcome(control_signal_values)
       IN  /\ monitored' = o
           /\ simulation_results' = Append(simulation_results, o)
           /\ allocation_policy_outcomes' = Append(allocation_policy_outcomes, o)
    /\ other_simulation_data' = Append(other_simulation_data, "other_simulation_data")
    /\ execution_phase' = "PROCESSING"
    /\ trial' = trial + 1
    /\ UNCHANGED <<pc, error>>
    /\ UNCHANGED <<allocation_samples, scenario, value, control_signal_values,
                   unique_id, execution_id, control_signal_search_space, idx,
                   num_trials, node_values, outcome_list, allocation_policy, cycle,
                   real_before, in_force, search_results, commit_log, nonCtlVars, costVars>>

(***************************************************************************)
(* Controller.run_simulation, one pass of its loop over the trials: the    *)
(* composition runs under the current values of the ControlSignals; an     *)
(* exception of the run leaves run_simulation at once.                     *)
(***************************************************************************)
RunSimulation_Trial ==
    /\ pc = "run_simulation"
    /\ trial <= num_trials
    /\ IF AgentRaises(control_signal_values)
       THEN /\ execution_phase' = "SIMULATION"
            /\ pc' = "error"
            /\ error' = "SimulationFailure"
            /\ UNCHANGED <<monitored, simulation_results, allocation_policy_outcomes,
                           other_simulation_data, trial>>
       ELSE /\ monitored' = AgentOutcome(control_signal_values)
            /\ simulation_results' =
                   Append(simulation_results, AgentOutcome(control_signal_values))
            /\ allocation_policy_outcomes' =
                   Append(allocation_policy_outcomes, AgentOutcome(control_signal_values))
            /\ other_simulation_data' =
                   Append(other_simulation_data, "other_simulation_data")
            /\ execution_phase' = "PROCESSING"
            /\ trial' = trial + 1
            /\ UNCHANGED <<pc, error>>
    /\ UNCHANGED <<allocation_samples, scenario, value, control_signal_values,
                   unique_id, execution_id, control_signal_search_space, idx,
                   num_trials, node_values, outcome_list, allocation_policy, cycle,
                   real_before, in_force, search_results, commit_log, nonCtlVars, costVars>>

(***************************************************************************)
(* run_simulation returns; run_simulations appends                         *)
(*   (allocation_policy, allocation_policy_outcomes, simulation_data)      *)
(***************************************************************************)
RunSimulation_Return ==
    /\ pc = "run_simulation"
    /\ trial > num_trials
    /\ outcome_list' = Append(outcome_list,
                              [policy   |-> control_signal_search_space[idx],
                               outcomes |-> allocation_policy_outcomes,
                               data     |-> other_simulation_data])
    /\ idx' = idx + 1
    /\ pc' = "run_simulations"
    /\ UNCHANGED <<allocation_samples, scenario, value, control_signal_values,
                   monitored, execution_phase, simulation_results, unique_id,
                   execution_id, error, control_signal_search_space, trial,
                   num_trials, node_values, allocation_policy_outcomes,
                   other_simulation_data, allocation_policy, cycle, real_before,
                   in_force, search_results, commit_log, nonCtlVars, costVars>>

(***************************************************************************)
(* Controller.run_simulations, after its loop:                             *)
(*   self.composition.after_simulations(reinitialize_values, node_values)  *)
(* gives the nodes of the composition their values of before the search.   *)
(***************************************************************************)
AfterSimulations ==
    /\ pc = "run_simulations"
    /\ idx > Len(control_signal_search_space)
    /\ monitored' = node_values
    /\ pc' = "function"
    /\ UNCHANGED <<allocation_samples, scenario, value, control_signal_values,
                   execution_phase, simulation_results, unique_id, execution_id,
                   error, control_signal_search_space, idx, trial, num_trials,
                   node_values, allocation_policy_outcomes, other_simulation_data,
                   outcome_list, allocation_policy, cycle, real_before, in_force,
                   search_results, commit_log, nonCtlVars, costVars>>

(***************************************************************************)
(* Controller._execute, last statements:                                   *)
(*   allocation_policy = self.function(self=self, simulation_data=...)     *)
(*   return allocation_policy                                              *)
(***************************************************************************)
Execute_Function ==
    /\ pc = "function"
    /\ LET r == GridSearch(outcome_list)
       IN  IF r.ok
           THEN /\ allocation_policy' = r.policy
                /\ search_results' = Append(search_results, r.policy)
                /\ IF save_all_values_and_policies
                   THEN /\ EVC_policies' = [q \in 1..Len(outcome_list) |->
                                               outcome_list[q].policy]
                        /\ EVC_values' = [q \in 1..Len(outcome_list) |->
                                             EVC(outcome_list[q])]
                   ELSE UNCHANGED <<EVC_policies, EVC_values>>
                /\ pc' = "commit"
                /\ UNCHANGED error
           ELSE /\ pc' = "error"
                /\ error' = "EmptySearchSpace"
                /\ UNCHANGED <<allocation_policy, search_results, EVC_policies,
                               EVC_values>>
    /\ UNCHANGED <<allocation_samples, scenario, value, control_signal_values,
                   monitored, execution_phase, simulation_results, unique_id,
                   execution_id, control_signal_search_space, idx, trial, num_trials,
                   node_values, allocation_policy_outcomes, other_simulation_data,
                   outcome_list, cycle, real_before, in_force, commit_log, nonCtlVars,
                   compute_reconfiguration_cost, previous_policy, reconfiguration_cost,
                   duration_cost, duration_before, save_all_values_and_policies>>

\* a plausible slip: the value assigned, the ControlSignals not updated
Commit_without_update ==
    /\ pc = "commit"
    /\ reconfiguration_cost' =
           IF compute_reconfiguration_cost = "None"
           THEN "None"
           ELSE Distance(allocation_policy, previous_policy)
    /\ value' = allocation_policy
    /\ duration_cost' = UpdateDurationCost(duration_cost, allocation_policy)
    /\ previous_policy' = allocation_policy
    /\ commit_log' = Append(commit_log, [cycle |-> cycle, policy |-> allocation_policy])
    /\ pc' = "trial"
    /\ UNCHANGED <<allocation_samples, scenario, control_signal_values, monitored,
                   execution_phase, simulation_results, unique_id, execution_id, error,
                   control_signal_search_space, idx, trial, num_trials, node_values,
                   allocation_policy_outcomes, other_simulation_data, outcome_list,
                   allocation_policy, cycle, real_before, in_force, search_results,
                   nonCtlVars, compute_reconfiguration_cost, duration_before,
                   save_all_values_and_policies, EVC_policies, EVC_values>>

\* a plausible slip: the stored previous policy not brought up to date
Commit_stale_previous ==
    /\ pc = "commit"
    /\ reconfiguration_cost' =
           IF compute_reconfiguration_cost = "None"
           THEN "None"
           ELSE Distance(allocation_policy, previous_policy)
    /\ value' = allocation_policy
    /\ control_signal_values' = allocation_policy
    /\ duration_cost' = UpdateDurationCost(duration_cost, allocation_policy)
    /\ commit_log' = Append(commit_log, [cycle |-> cycle, policy |-> allocation_policy])
    /\ pc' = "trial"
    /\ UNCHANGED <<allocation_samples, scenario, monitored, execution_phase,
                   simulation_results, unique_id, execution_id, error,
                   control_signal_search_space, idx, trial, num_trials, node_values,
                   allocation_policy_outcomes, other_simulation_data, outcome_list,
                   allocation_policy, cycle, real_before, in_force, search_results,
                   nonCtlVars, compute_reconfiguration_cost, previous_policy,
                   duration_before, save_all_values_and_policies, EVC_policies,
                   EVC_values>>

(***************************************************************************)
(* The commit: the policy _execute returned becomes the value of the       *)
(* controller and of its ControlSignals, for the next trial.               *)
(***************************************************************************)
Commit ==
    /\ pc = "commit"
    /\ reconfiguration_cost' =
           IF compute_reconfiguration_cost = "None"
           THEN "None"
           ELSE Distance(allocation_policy, previous_policy)
    /\ value' = allocation_policy
    /\ control_signal_values' = allocation_policy
    /\ duration_cost' = UpdateDurationCost(duration_cost, allocation_policy)
    /\ previous_policy' = allocation_policy
    /\ commit_log' = Append(commit_log, [cycle |-> cycle, policy |-> allocation_policy])
    /\ pc' = "trial"
    /\ UNCHANGED <<allocation_samples, scenario, monitored, execution_phase,
                   simulation_results, unique_id, execution_id, error,
                   control_signal_search_space, idx, trial, num_trials, node_values,
                   allocation_policy_outcomes, other_simulation_data, outcome_list,
                   allocation_policy, cycle, real_before, in_force, search_results,
                   nonCtlVars, compute_reconfiguration_cost, duration_before,
                   save_all_values_and_policies, EVC_policies, EVC_values>>

(***************************************************************************)
(* An exception left the trial; the caller runs the composition again.     *)
(***************************************************************************)
CallerRunsAgain ==
    /\ pc = "error"
    /\ cycle < MaxCycles
    /\ pc' = "trial"
    /\ error' = "none"
    /\ UNCHANGED <<allocation_samples, scenario, value, control_signal_values,
                   monitored, execution_phase, simulation_results, unique_id,
                   execution_id, control_signal_search_space, idx, trial, num_trials,
                   node_values, allocation_policy_outcomes, other_simulation_data,
                   outcome_list, allocation_policy, cycle, real_before, in_force,
                   search_results, commit_log, nonCtlVars, costVars>>

Next ==
    \/ RealTrial
    \/ Execute_GetPolicies
    \/ BeforeSimulations
    \/ RunSimulation_Apply
    \/ RunSimulation_Trial
    \/ RunSimulation_Return
    \/ AfterSimulations
    \/ Execute_Function
    \/ Commit
    \/ CallerRunsAgain

Spec == Init /\ [][Next]_vars


(***************************************************************************)
(* get_allocation_policies on its own, for one to three ControlSignals     *)
(* (specification SpecMesh).                                               *)
(***************************************************************************)
InitMesh ==
    /\ CtlIdle
    /\ GAIdle
    /\ CMIdle
    /\ CHMIdle
    /\ OneHotIdle
    /\ SimIdle
    /\ mesh_lists \in SampleConfigs(MeshSignalCounts)
    /\ mesh_result = [ok |-> FALSE, rows |-> <<>>]
    /\ mesh_pc = "call"

MeshCall ==
    /\ mesh_pc = "call"
    /\ mesh_result' = get_allocation_policies(mesh_lists)
    /\ mesh_pc' = "returned"
    /\ UNCHANGED <<mesh_lists, ctlVars, gaVars, cmVars, chmVars, ohVars, simVars>>

NextMesh == MeshCall

SpecMesh == InitMesh /\ [][NextMesh]_vars

Range(s) == {s[i] : i \in 1..Len(s)}

\* C4: get_allocation_policies enumerates the Cartesian product of the
\* allocation_samples: as many candidates as the product of the sizes, every
\* combination of one sample per signal exactly once, column i of every
\* candidate a sample of signal i.
C4_CartesianProduct ==
    mesh_pc = "returned" =>
        LET k    == Len(mesh_lists)
            rows == mesh_result.rows
        IN  /\ mesh_result.ok
            /\ Len(rows) = ProdSeq([i \in 1..k |-> Len(mesh_lists[i])])
            /\ \A r \in 1..Len(rows) :
                   /\ Len(rows[r]) = k
                   /\ \A i \in 1..k : rows[r][i] \in Range(mesh_lists[i])
            /\ \A c \in [1..k -> 0..MaxAlloc] :
                   (\A i \in 1..k : c[i] \in Range(mesh_lists[i]))
                       => Cardinality({r \in 1..Len(rows) : rows[r] = c}) = 1

C4_Witness ==
    /\ mesh_pc = "returned"
    /\ Len(mesh_lists) = 3
    /\ Len(mesh_lists[1]) = 2
    /\ Len(mesh_lists[2]) = 3
    /\ Len(mesh_lists[3]) = 2
    /\ Range(mesh_lists[1]) \cap Range(mesh_lists[3]) = {}
    /\ Len(mesh_result.rows) = 12

(***************************************************************************)
(* Properties of the grid-search control cycle (specification Spec).       *)
(***************************************************************************)
NoCandidates(samples) == Len(samples) = 0 \/ \E i \in 1..Len(samples) : samples[i] = <<>>

RealState == [value |-> value,
              control_signal_values |-> control_signal_values,
              monitored |-> monitored]

\* C1: one control cycle evaluates every candidate of the search space and
\* returns a policy whose net value (outcome minus aggregated cost, when the
\* agent runs under that policy) is at least that of every other candidate.
C1_ReturnsMaximalNetValue ==
    pc = "commit" =>
        /\ Len(outcome_list) = Len(control_signal_search_space)
        /\ \A c \in 1..Len(control_signal_search_space) :
               TrueNetValue(allocation_policy) >=
                   TrueNetValue(control_signal_search_space[c])

\* C2: the simulated evaluations leave the real state as it was: after
\* run_simulation and after run_simulations the controller's value, the values
\* of its ControlSignals and the monitored outputs are those of before the call.
C2_SimulationsLeaveRealState ==
    pc \in {"run_simulations", "function"} => RealState = real_before

\* C3: among the candidates with the maximal value the search returns the first
\* of the enumeration, and so every search over the same allocation space with
\* the same agent representation returns the same policy.
C3_FirstSeenAndDeterministic ==
    /\ pc = "commit" =>
           \E i \in 1..Len(outcome_list) :
               /\ outcome_list[i].policy = allocation_policy
               /\ \A q \in 1..Len(outcome_list) : EVC(outcome_list[q]) <= EVC(outcome_list[i])
               /\ \A q \in 1..(i - 1) : EVC(outcome_list[q]) < EVC(outcome_list[i])
    /\ \A a, b \in 1..Len(search_results) : search_results[a] = search_results[b]

\* C5: within a control cycle the real allocation is written by the commit
\* only, and the commit comes after every candidate evaluation of the cycle.
C5_OnlyCommitWritesAllocation ==
    [][(value' # value \/ control_signal_values' # control_signal_values)
          => (pc = "commit" /\ idx > Len(control_signal_search_space))]_vars

\* C6: the policy committed at the end of cycle k is the allocation real trial
\* k+1 runs under; it is committed after trial k has run, so trial k ran under
\* the allocation of before the commit.
C6_OneCycleLag ==
    \A n \in 1..Len(commit_log) :
        LET c == commit_log[n]
        IN  /\ c.cycle <= Len(in_force)
            /\ c.cycle + 1 <= Len(in_force) => in_force[c.cycle + 1] = c.policy

C6_Witness ==
    /\ Len(commit_log) >= 1
    /\ Len(in_force) >= 2
    /\ commit_log[1].cycle = 1
    /\ in_force[2] = commit_log[1].policy
    /\ in_force[2] # in_force[1]

Committed(n) == commit_log[n].policy

AppliedBefore(n) ==
    IF n = 1 THEN DefaultAllocation(Len(allocation_samples)) ELSE Committed(n - 1)

C15_SimulationsLeaveDurationCost ==
    pc \in {"run_simulations", "run_simulation", "function"}
        => duration_cost = duration_before

\* C16: with save_all_values_and_policies, after a search the saved policies are
\* the candidates of the search space, one entry each in the order of
\* evaluation, and the value saved with a policy is the net value of that
\* policy; the list of run_simulations has one entry per policy, in the order
\* given.
C16_HistoryPairsPolicyWithItsValue ==
    (pc = "commit" /\ save_all_values_and_policies) =>
        /\ Len(outcome_list) = Len(control_signal_search_space)
        /\ \A q \in 1..Len(outcome_list) :
               outcome_list[q].policy = control_signal_search_space[q]
        /\ EVC_policies = control_signal_search_space
        /\ Len(EVC_values) = Len(EVC_policies)
        /\ \A q \in 1..Len(EVC_values) : EVC_values[q] = TrueNetValue(EVC_policies[q])

\* C22: every candidate of the search space, an all-zero one and one of several
\* signals included, is assigned to the control signals before its trials run:
\* while the trials of candidate idx run, the values of the control signals are
\* that candidate, and applying a candidate never fails.
C22_CandidateAppliedBeforeItsTrials ==
    /\ pc = "run_simulation" => control_signal_values = control_signal_search_space[idx]
    /\ (pc = "error" /\ error = "ValueError") => control_signal_search_space = <<>>

\* C23: the trials of one candidate run under one execution id, obtained when
\* run_simulation starts on that candidate; it is larger than every id obtained
\* before, so it differs from the id of every other candidate, and it is never
\* 0, the id of the real run.
C23_FreshExecutionIdPerCandidate ==
    [][/\ (pc = "run_simulations" /\ pc' = "run_simulation")
              => (execution_id' > execution_id /\ execution_id' > 0)
       /\ execution_id' # execution_id
              => (pc = "run_simulations" /\ pc' = "run_simulation")
       /\ (pc = "run_simulation" /\ pc' = "run_simulation")
              => (execution_id' = execution_id /\ trial' = trial + 1)]_vars

C23_Witness ==
    /\ pc = "run_simulation"
    /\ idx = 2
    /\ num_trials = 2
    /\ trial = 3
    /\ execution_id >= 2
    /\ Len(outcome_list) = 1

\* C25: between the steps of run_simulation, and after it has ended by a return
\* or by an exception of the simulated run, the execution phase of the
\* composition is PROCESSING (no state of this specification is inside a trial).
C25_PhaseIsProcessingOutsideTrials == execution_phase = "PROCESSING"

\* C26: when run_simulation returns, its two lists have num_trials entries: the
\* first the monitored outcome of each trial in order, the second what
\* call_after_simulation returned for each trial, None when there is no callback
\* (run_simulations passes none).
C26_RunSimulationReturnsTwoLists ==
    (pc = "run_simulation" /\ trial > num_trials) =>
        /\ Len(allocation_policy_outcomes) = num_trials
        /\ Len(other_simulation_data) = num_trials
        /\ \A t \in 1..num_trials :
               /\ allocation_policy_outcomes[t] = AgentOutcome(control_signal_values)
               /\ other_simulation_data[t] = "None"


(***************************************************************************)
(* LVOCControlMechanism.gradient_ascent (specification SpecGA).   *)
(* prediction_vector and prediction_weights have the fields pred, intrxn,  *)
(* ctl and cst; control_signal_values and costs of the source are views of *)
(* the fields ctl and cst of prediction_vector.                            *)
(***************************************************************************)
Abs(x) == IF x < 0 THEN 0 - x ELSE x

\* control_signals[i].intensity_cost_function and its derivative
IntensityCost(f, x) == IF f = "linear" THEN x ELSE x * x

IntensityCostDerivative(f, x) == IF f = "linear" THEN 1 ELSE 2 * x

Dot(v, w) == SumSeq([i \in 1..Len(v) |-> v[i] * w[i]])

\* LVOCControlMechanism.compute_lvoc: np.sum(v * w)
compute_lvoc(v, w) ==
    Dot(v.pred, w.pred) + Dot(v.intrxn, w.intrxn) + Dot(v.ctl, w.ctl) + Dot(v.cst, w.cst)

\* the interaction terms: pred * ctl.reshape(num_control_signals, 1), flattened
Interactions(pred, ctl) ==
    [n \in 1..(Len(ctl) * Len(pred)) |->
        pred[((n - 1) % Len(pred)) + 1] * ctl[((n - 1) \div Len(pred)) + 1]]

\* gradient_constants[i]: the weight of signal i plus its interaction weights
\* times the predictors
gradient_constants(v, w) ==
    [i \in 1..Len(v.ctl) |->
        w.ctl[i] + SumSeq([q \in 1..Len(v.pred) |->
                              w.intrxn[(i - 1) * Len(v.pred) + q] * v.pred[q]])]

\* one pass of the loop over the control signals and the assignments that
\* follow it: the new prediction_vector
UpdatedVector(v, w, fns, rate) ==
    LET gc   == gradient_constants(v, w)
        ctl2 == [i \in 1..Len(v.ctl) |->
                    v.ctl[i] + rate * (gc[i] - IntensityCostDerivative(fns[i], v.ctl[i])
                                                   * w.cst[i])]
        cst2 == [i \in 1..Len(v.ctl) |-> 0 - IntensityCost(fns[i], v.ctl[i])]
    IN  [pred |-> v.pred, intrxn |-> Interactions(v.pred, ctl2),
         ctl |-> ctl2, cst |-> cst2]

GAConfigs(k) ==
    [pred : [1..1 -> PredictorValues],
     w_intrxn : [1..k -> WeightValues],
     w_ctl : [1..k -> WeightValues],
     w_cst : [1..k -> WeightValues],
     ctl : [1..k -> InitialControlValues],
     fn : CostFunctions]

InitGA ==
    /\ CtlIdle
    /\ MeshIdle
    /\ CMIdle
    /\ CHMIdle
    /\ OneHotIdle
    /\ SimIdle
    /\ max_iterations \in 0..MaxIterations
    /\ convergence_criterion \in 0..MaxCriterion
    /\ udpate_rate = 1
    /\ \E k \in GASignalCounts : \E c \in GAConfigs(k) :
          /\ cost_function = [i \in 1..k |-> c.fn]
          /\ prediction_weights =
                 [pred |-> <<1>>, intrxn |-> c.w_intrxn, ctl |-> c.w_ctl, cst |-> c.w_cst]
          /\ prediction_vector =
                 [pred |-> c.pred, intrxn |-> Interactions(c.pred, c.ctl), ctl |-> c.ctl,
                  cst |-> [i \in 1..k |-> 0 - IntensityCost(c.fn, c.ctl[i])]]
    /\ convergence_metric = 0
    /\ previous_lvoc = 0
    /\ current_lvoc = 0
    /\ j = 0
    /\ ga_pc = "INITIALIZED"
    /\ ga_warnings = <<>>
    /\ ga_return = NotReturned

\* where gradient_ascent stands: before its loop, at the while test with the
\* condition true, at the while test with the condition false
GA_AtEntry == ga_pc = "INITIALIZED"

GA_LoopContinues == ga_pc = "ITERATING" /\ convergence_metric > convergence_criterion

GA_LoopEnds == ga_pc = "ITERATING" /\ ~(convergence_metric > convergence_criterion)

\* a plausible slip: previous_lvoc starts at 0 instead of at the largest float
GA_Enter_zero_sentinel ==
    /\ GA_AtEntry
    /\ convergence_metric' = convergence_criterion + EPSILON
    /\ previous_lvoc' = 0
    /\ j' = 0
    /\ ga_pc' = "ITERATING"
    /\ UNCHANGED <<max_iterations, convergence_criterion, udpate_rate, cost_function,
                   prediction_weights, prediction_vector, current_lvoc, ga_warnings,
                   ga_return, ctlVars, meshVars, cmVars, chmVars, ohVars, simVars>>

\* gradient_ascent up to its loop
GA_Enter ==
    /\ GA_AtEntry
    /\ convergence_metric' = convergence_criterion + EPSILON
    /\ previous_lvoc' = FloatMax
    /\ j' = 0
    /\ ga_pc' = "ITERATING"
    /\ UNCHANGED <<max_iterations, convergence_criterion, udpate_rate, cost_function,
                   prediction_weights, prediction_vector, current_lvoc, ga_warnings,
                   ga_return, ctlVars, meshVars, cmVars, chmVars, ohVars, simVars>>

\* a plausible slip: the iteration count compared one too high
GA_Pass_late_stop ==
    /\ GA_LoopContinues
    /\ LET v2   == UpdatedVector(prediction_vector, prediction_weights, cost_function,
                                 udpate_rate)
           lvoc == compute_lvoc(v2, prediction_weights)
       IN  /\ prediction_vector' = v2
           /\ current_lvoc' = lvoc
           /\ convergence_metric' = Abs(lvoc - previous_lvoc)
           /\ j' = j + 1
           /\ IF j + 1 > max_iterations + 1
              THEN /\ ga_warnings' = Append(ga_warnings, "failed to converge")
                   /\ ga_pc' = "MAX_ITERATIONS_EXCEEDED"
                   /\ ga_return' = [returned |-> TRUE, control_signal_values |-> v2.ctl]
                   /\ UNCHANGED previous_lvoc
              ELSE /\ previous_lvoc' = lvoc
                   /\ UNCHANGED <<ga_pc, ga_warnings, ga_return>>
    /\ UNCHANGED <<max_iterations, convergence_criterion, udpate_rate, cost_function,
                   prediction_weights, ctlVars, meshVars, cmVars, chmVars, ohVars, simVars>>

\* a plausible slip: on exceeding max_iterations the point of before the last
\* pass is returned
GA_Pass_returns_previous ==
    /\ GA_LoopContinues
    /\ LET v2   == UpdatedVector(prediction_vector, prediction_weights, cost_function,
                                 udpate_rate)
           lvoc == compute_lvoc(v2, prediction_weights)
       IN  /\ prediction_vector' = v2
           /\ current_lvoc' = lvoc
           /\ convergence_metric' = Abs(lvoc - previous_lvoc)
           /\ j' = j + 1
           /\ IF j + 1 > max_iterations
              THEN /\ ga_warnings' = Append(ga_warnings, "failed to converge")
                   /\ ga_pc' = "MAX_ITERATIONS_EXCEEDED"
                   /\ ga_return' = [returned |-> TRUE,
                                    control_signal_values |-> prediction_vector.ctl]
                   /\ UNCHANGED previous_lvoc
              ELSE /\ previous_lvoc' = lvoc
                   /\ UNCHANGED <<ga_pc, ga_warnings, ga_return>>
    /\ UNCHANGED <<max_iterations, convergence_criterion, udpate_rate, cost_function,
                   prediction_weights, ctlVars, meshVars, cmVars, chmVars, ohVars, simVars>>

\* one pass of the while loop: the update, the new LVOC, the convergence
\* metric, then j += 1 and the test of j against max_iterations
GA_Pass ==
    /\ GA_LoopContinues
    /\ LET v2   == UpdatedVector(prediction_vector, prediction_weights, cost_function,
                                 udpate_rate)
           lvoc == compute_lvoc(v2, prediction_weights)
       IN  /\ prediction_vector' = v2
           /\ current_lvoc' = lvoc
           /\ convergence_metric' = Abs(lvoc - previous_lvoc)
           /\ j' = j + 1
           /\ IF j + 1 > max_iterations
              THEN /\ ga_warnings' = Append(ga_warnings, "failed to converge")
                   /\ ga_pc' = "MAX_ITERATIONS_EXCEEDED"
                   /\ ga_return' = [returned |-> TRUE, control_signal_values |-> v2.ctl]
                   /\ UNCHANGED previous_lvoc
              ELSE /\ previous_lvoc' = lvoc
                   /\ UNCHANGED <<ga_pc, ga_warnings, ga_return>>
    /\ UNCHANGED <<max_iterations, convergence_criterion, udpate_rate, cost_function,
                   prediction_weights, ctlVars, meshVars, cmVars, chmVars, ohVars, simVars>>

\* the while condition fails: the loop ends and control_signal_values is returned
GA_Converged ==
    /\ GA_LoopEnds
    /\ ga_pc' = "CONVERGED"
    /\ ga_return' = [returned |-> TRUE, control_signal_values |-> prediction_vector.ctl]
    /\ UNCHANGED <<max_iterations, convergence_criterion, udpate_rate, cost_function,
                   prediction_weights, prediction_vector, convergence_metric,
                   previous_lvoc, current_lvoc, j, ga_warnings, ctlVars, meshVars, cmVars, chmVars, ohVars, simVars>>

NextGA ==
    \/ GA_Enter
    \/ GA_Pass
    \/ GA_Converged

SpecGA == InitGA /\ [][NextGA]_vars

GATerminated == ga_pc \in {"CONVERGED", "MAX_ITERATIONS_EXCEEDED"}

C10_ConvergedIffWithinCriterion ==
    GATerminated =>
        (ga_pc = "CONVERGED" <=> convergence_metric <= convergence_criterion)

\* C11: when the iteration count exceeds max_iterations gradient_ascent does not
\* fail: it records one warning and returns the control-signal values of the
\* last pass it computed (the point whose LVOC is current_lvoc); no warning is
\* recorded otherwise.
C11_WarnsAndReturnsLastPoint ==
    /\ ga_pc = "MAX_ITERATIONS_EXCEEDED" =>
           /\ ga_return.returned
           /\ ga_return.control_signal_values = prediction_vector.ctl
           /\ current_lvoc = compute_lvoc(prediction_vector, prediction_weights)
           /\ ga_warnings = <<"failed to converge">>
    /\ ga_pc # "MAX_ITERATIONS_EXCEEDED" => ga_warnings = <<>>

C11_Witness ==
    /\ ga_pc = "MAX_ITERATIONS_EXCEEDED"
    /\ max_iterations >= 1
    /\ convergence_metric > convergence_criterion
    /\ ga_return.returned
    /\ ga_return.control_signal_values # <<0>>
    /\ ga_return.control_signal_values # <<1>>
    /\ Len(ga_warnings) = 1

\* C27: at the end of every pass the control-signal field of the prediction
\* vector holds the updated values, and its cost and interaction fields are
\* computed from them: the cost entry of signal i is minus its
\* intensity_cost_function at the new value of signal i.
C27_FieldsFollowUpdatedValues ==
    (ga_pc \in {"ITERATING", "MAX_ITERATIONS_EXCEEDED"} /\ j >= 1) =>
        /\ prediction_vector.intrxn =
               Interactions(prediction_vector.pred, prediction_vector.ctl)
        /\ \A i \in 1..Len(prediction_vector.ctl) :
               prediction_vector.cst[i] =
                   0 - IntensityCost(cost_function[i], prediction_vector.ctl[i])

\* C28: the failed-to-converge warning is issued only for a run whose last pass
\* left the convergence metric above convergence_criterion; a run whose last
\* pass satisfied the convergence test ends without a warning.
C28_WarningOnlyWhenNotConverged ==
    /\ ga_warnings # <<>> => convergence_metric > convergence_criterion
    /\ (ga_return.returned /\ convergence_metric <= convergence_criterion)
           => (ga_warnings = <<>> /\ ga_pc = "CONVERGED")

PLUS_PHASE == "PLUS"

MINUS_PHASE == "MINUS"

\* not self.execution_phase
NotPhase(phase) == IF phase = PLUS_PHASE THEN MINUS_PHASE ELSE PLUS_PHASE

\* a plausible slip: the phase switched by every execution
PhaseAfter_always_switches(phase, converged) == NotPhase(phase)

\* self.execution_phase after an execution that did not return early
PhaseAfter(phase, converged) == IF converged THEN NotPhase(phase) ELSE phase

\* _parse_function_variable: the input handed to the function
parse_function_variable(phase, external, recurrent, combination_raises) ==
    IF phase = PLUS_PHASE
    THEN IF combination_raises THEN recurrent ELSE external + recurrent
    ELSE recurrent

InitCHM ==
    /\ CtlIdle
    /\ MeshIdle
    /\ GAIdle
    /\ CMIdle
    /\ OneHotIdle
    /\ SimIdle
    /\ initialization_status = "INITIALIZING"
    /\ chm_execution_phase = "None"
    /\ is_finished = FALSE
    /\ previous_mech_value = "None"
    /\ initial_value = 0
    /\ current_activity = 0
    /\ plus_phase_activity = 0
    /\ minus_phase_activity = 0
    /\ chm_last = NoExecution
    /\ chm_executions = 0
    /\ chm_trials = 0

\* a plausible slip: the end of the minus phase leaves current_activity at the
\* activity of that execution instead of restoring plus_phase_activity
ExecuteCHM_keeps_current_activity ==
    /\ initialization_status \in {"INITIALIZING", "INITIALIZED"}
    /\ chm_executions < MaxExecutions
    /\ \E external \in 0..MaxInput, recurrent_in \in 0..MaxInput,
          converged \in BOOLEAN, combination_raises \in BOOLEAN,
          previous \in {"None", "set"} :
          LET initializing == initialization_status = "INITIALIZING"
              phase     == IF initializing \/ chm_execution_phase = "None"
                           THEN PLUS_PHASE ELSE chm_execution_phase
              plus      == IF initializing THEN 0 ELSE plus_phase_activity
              minus     == IF initializing THEN 0 ELSE minus_phase_activity
              recurrent == IF is_finished THEN 0 ELSE recurrent_in
              fv        == parse_function_variable(phase, external, recurrent,
                                                   combination_raises)
              early     == previous = "None"
          IN  /\ previous_mech_value = "set" => previous = "set"
              /\ previous_mech_value' = previous
              /\ initial_value' = IF initializing THEN 0 ELSE initial_value
              /\ chm_last' = [phase |-> phase, converged |-> converged,
                              returned_early |-> early, external |-> external,
                              recurrent |-> recurrent,
                              combination_raised |-> combination_raises,
                              function_variable |-> fv, activity |-> fv]
              /\ IF early \/ ~converged
                 THEN /\ current_activity' = fv
                      /\ plus_phase_activity' = plus
                      /\ minus_phase_activity' = minus
                      /\ is_finished' = FALSE
                      /\ chm_execution_phase' =
                             IF early THEN phase ELSE PhaseAfter(phase, converged)
                      /\ UNCHANGED chm_trials
                 ELSE IF phase = MINUS_PHASE
                 THEN /\ minus_phase_activity' = fv
                      /\ current_activity' = fv
                      /\ plus_phase_activity' = plus
                      /\ is_finished' = TRUE
                      /\ chm_execution_phase' = PhaseAfter(phase, converged)
                      /\ chm_trials' = chm_trials + 1
                 ELSE /\ plus_phase_activity' = fv
                      /\ current_activity' = IF initializing THEN 0 ELSE initial_value
                      /\ minus_phase_activity' = minus
                      /\ is_finished' = FALSE
                      /\ chm_execution_phase' = PhaseAfter(phase, converged)
                      /\ UNCHANGED chm_trials
    /\ initialization_status' = "INITIALIZED"
    /\ chm_executions' = chm_executions + 1
    /\ UNCHANGED <<ctlVars, meshVars, gaVars, cmVars, ohVars, simVars>>

\* one call of _execute
ExecuteCHM ==
    /\ initialization_status \in {"INITIALIZING", "INITIALIZED"}
    /\ chm_executions < MaxExecutions
    /\ \E external \in 0..MaxInput, recurrent_in \in 0..MaxInput,
          converged \in BOOLEAN, combination_raises \in BOOLEAN,
          previous \in {"None", "set"} :
          LET initializing == initialization_status = "INITIALIZING"
              phase     == IF initializing \/ chm_execution_phase = "None"
                           THEN PLUS_PHASE ELSE chm_execution_phase
              plus      == IF initializing THEN 0 ELSE plus_phase_activity
              minus     == IF initializing THEN 0 ELSE minus_phase_activity
              recurrent == IF is_finished THEN 0 ELSE recurrent_in
              fv        == parse_function_variable(phase, external, recurrent,
                                                   combination_raises)
              early     == previous = "None"
          IN  /\ previous_mech_value = "set" => previous = "set"
              /\ previous_mech_value' = previous
              /\ initial_value' = IF initializing THEN 0 ELSE initial_value
              /\ chm_last' = [phase |-> phase, converged |-> converged,
                              returned_early |-> early, external |-> external,
                              recurrent |-> recurrent,
                              combination_raised |-> combination_raises,
                              function_variable |-> fv, activity |-> fv]
              /\ IF early \/ ~converged
                 THEN /\ current_activity' = fv
                      /\ plus_phase_activity' = plus
                      /\ minus_phase_activity' = minus
                      /\ is_finished' = FALSE
                      /\ chm_execution_phase' =
                             IF early THEN phase ELSE PhaseAfter(phase, converged)
                      /\ UNCHANGED chm_trials
                 ELSE IF phase = MINUS_PHASE
                 THEN /\ minus_phase_activity' = fv
                      /\ current_activity' = plus
                      /\ plus_phase_activity' = plus
                      /\ is_finished' = TRUE
                      /\ chm_execution_phase' = PhaseAfter(phase, converged)
                      /\ chm_trials' = chm_trials + 1
                 ELSE /\ plus_phase_activity' = fv
                      /\ current_activity' = IF initializing THEN 0 ELSE initial_value
                      /\ minus_phase_activity' = minus
                      /\ is_finished' = FALSE
                      /\ chm_execution_phase' = PhaseAfter(phase, converged)
                      /\ UNCHANGED chm_trials
    /\ initialization_status' = "INITIALIZED"
    /\ chm_executions' = chm_executions + 1
    /\ UNCHANGED <<ctlVars, meshVars, gaVars, cmVars, ohVars, simVars>>

NextCHM == ExecuteCHM

SpecCHM == InitCHM /\ [][NextCHM]_vars

\* C17: a trial is a plus phase followed by a minus phase: the phase changes
\* only in an execution that converged, is_finished becomes True only when an
\* execution of the minus phase converged (and then the phase is the plus
\* phase again), and the execution that follows a finished trial runs in the
\* plus phase.
C17_PlusThenMinus ==
    [][/\ (chm_execution_phase # "None" /\ chm_execution_phase' # chm_execution_phase)
              => (chm_last'.converged /\ chm_last'.phase = chm_execution_phase)
       /\ is_finished' =>
              /\ chm_last'.converged
              /\ chm_last'.phase = MINUS_PHASE
              /\ chm_execution_phase' = PLUS_PHASE
       /\ (is_finished /\ chm_executions' # chm_executions)
              => chm_last'.phase = PLUS_PHASE
       /\ (chm_trials' # chm_trials) => (is_finished' /\ chm_last.phase # "None")]_vars

C17_Witness ==
    /\ chm_trials = 1
    /\ ~is_finished
    /\ chm_last.phase = PLUS_PHASE
    /\ chm_last.converged
    /\ chm_execution_phase = MINUS_PHASE

\* C29: when the minus phase converges, minus_phase_activity is the activity of
\* that execution, plus_phase_activity keeps the activity at which the plus
\* phase converged and current_activity is set to plus_phase_activity; when the
\* plus phase converges, plus_phase_activity is the activity of that execution
\* and current_activity is reset to initial_value.
C29_PhaseActivitiesAtConvergence ==
    [][/\ (chm_executions' # chm_executions /\ chm_last'.converged
              /\ ~chm_last'.returned_early) =>
              IF chm_last'.phase = MINUS_PHASE
              THEN /\ minus_phase_activity' = chm_last'.activity
                   /\ plus_phase_activity' = plus_phase_activity
                   /\ current_activity' = plus_phase_activity'
              ELSE /\ plus_phase_activity' = chm_last'.activity
                   /\ current_activity' = initial_value'
       /\ (plus_phase_activity' # plus_phase_activity) =>
              \/ initialization_status = "INITIALIZING"
              \/ /\ chm_last'.converged
                 /\ ~chm_last'.returned_early
                 /\ chm_last'.phase = PLUS_PHASE]_vars

C29_Witness ==
    /\ chm_last.phase = MINUS_PHASE
    /\ chm_last.converged
    /\ ~chm_last.returned_early
    /\ is_finished
    /\ minus_phase_activity = chm_last.activity
    /\ plus_phase_activity # minus_phase_activity
    /\ current_activity = plus_phase_activity
    /\ current_activity # initial_value

\* C18: in the minus phase the function receives the input of the EXTERNAL
\* InputState only; in the plus phase it receives the combination of the
\* RECURRENT and EXTERNAL inputs.
C18_MinusPhaseUsesExternalInput ==
    /\ chm_last.phase = MINUS_PHASE => chm_last.function_variable = chm_last.external
    /\ (chm_last.phase = PLUS_PHASE /\ ~chm_last.combination_raised)
           => chm_last.function_variable = chm_last.external + chm_last.recurrent

(***************************************************************************)
(* OneHot.function (specification SpecOneHot).  Probabilities and the      *)
(* random draw are counted in units of 1/ProbUnits: a distribution sums to *)
(* ProbUnits and np.random.uniform() draws from 0..ProbUnits-1.            *)
(***************************************************************************)
OneHotLengths == {1, 2, 3}

ValueModes == {"MAX_VAL", "MAX_ABS_VAL", "MAX_INDICATOR", "MAX_ABS_INDICATOR",
               "MIN_VAL", "MIN_ABS_VAL", "MIN_INDICATOR", "MIN_ABS_INDICATOR"}

ProbModes == {"PROB", "PROB_INDICATOR"}

MaxOf(S) == CHOOSE x \in S : \A y \in S : y <= x

MinOf(S) == CHOOSE x \in S : \A y \in S : x <= y

Absolute(v) == [i \in 1..Len(v) |-> Abs(v[i])]

\* np.where(v == x, a, 0)
WhereEqual(v, x, a) == [i \in 1..Len(v) |-> IF v[i] = x THEN a ELSE 0]

\* np.cumsum
CumSum(p) == [i \in 1..Len(p) |-> SumSeq(SubSeq(p, 1, i))]

\* next(element for element in cum_sum if element > random_value)
ChosenItem(cum_sum, r) ==
    cum_sum[MinOf({i \in 1..Len(cum_sum) : cum_sum[i] > r})]

OneHot(m, v, p, r) ==
    IF m = "MAX_VAL" THEN WhereEqual(v, MaxOf(Range(v)), MaxOf(Range(v)))
    ELSE IF m = "MAX_ABS_VAL"
    THEN WhereEqual(v, MaxOf(Range(Absolute(v))), MaxOf(Range(Absolute(v))))
    ELSE IF m = "MAX_INDICATOR" THEN WhereEqual(v, MaxOf(Range(v)), 1)
    ELSE IF m = "MAX_ABS_INDICATOR" THEN WhereEqual(v, MaxOf(Range(Absolute(v))), 1)
    ELSE IF m = "MIN_VAL" THEN WhereEqual(v, MinOf(Range(v)), MinOf(Range(v)))
    ELSE IF m = "MIN_ABS_VAL"
    THEN WhereEqual(v, MinOf(Range(Absolute(v))), MinOf(Range(Absolute(v))))
    ELSE IF m = "MIN_INDICATOR" THEN WhereEqual(v, MinOf(Range(v)), 1)
    ELSE IF m = "MIN_ABS_INDICATOR" THEN WhereEqual(v, MinOf(Range(Absolute(v))), 1)
    ELSE IF \A i \in 1..Len(p) : p[i] = 0 THEN v
    ELSE LET cum_sum == CumSum(p)
             chosen_in_cum_sum == WhereEqual(cum_sum, ChosenItem(cum_sum, r), 1)
         IN  IF m = "PROB"
             THEN [i \in 1..Len(v) |-> v[i] * chosen_in_cum_sum[i]]
             ELSE chosen_in_cum_sum

Vectors(n) == [1..n -> (0 - MaxVal)..MaxVal]

\* the distributions _validate_params accepts: every element in [0, 1], sum 1
Distributions(n) == {p \in [1..n -> 0..ProbUnits] : SumSeq(p) = ProbUnits}

InitOneHot ==
    /\ CtlIdle
    /\ MeshIdle
    /\ GAIdle
    /\ CMIdle
    /\ CHMIdle
    /\ SimIdle
    /\ \E n \in OneHotLengths :
          /\ oh_variable \in Vectors(n)
          /\ \/ mode \in ValueModes /\ prob_dist = <<>>
             \/ mode \in ProbModes /\ prob_dist \in Distributions(n)
    /\ random_value = 0
    /\ result = <<>>
    /\ oh_pc = "call"

OneHotFunction ==
    /\ oh_pc = "call"
    /\ \E r \in 0..(ProbUnits - 1) :
          /\ mode \in ValueModes => r = 0
          /\ random_value' = r
          /\ result' = OneHot(mode, oh_variable, prob_dist, r)
    /\ oh_pc' = "returned"
    /\ UNCHANGED <<mode, oh_variable, prob_dist, ctlVars, meshVars, gaVars, cmVars, chmVars, simVars>>

NextOneHot == OneHotFunction

SpecOneHot == InitOneHot /\ [][NextOneHot]_vars

AbsModes == {"MAX_ABS_VAL", "MAX_ABS_INDICATOR", "MIN_ABS_VAL", "MIN_ABS_INDICATOR"}

\* the absolute value the mode looks for
ExtremeAbs(m, v) ==
    IF m \in {"MAX_ABS_VAL", "MAX_ABS_INDICATOR"}
    THEN MaxOf(Range(Absolute(v))) ELSE MinOf(Range(Absolute(v)))

ExtremePositions(m, v) == {i \in 1..Len(v) : Abs(v[i]) = ExtremeAbs(m, v)}

\* C19: in the modes MAX_ABS_VAL, MAX_ABS_INDICATOR, MIN_ABS_VAL and
\* MIN_ABS_INDICATOR the result has the length of the input; when one element
\* has the largest (smallest) absolute value, its position holds that element (1
\* in the indicator modes) and every other position holds 0, whatever its sign.
C19_AbsModesSelectExtremeElement ==
    (oh_pc = "returned" /\ mode \in AbsModes) =>
        /\ Len(result) = Len(oh_variable)
        /\ Cardinality(ExtremePositions(mode, oh_variable)) = 1 =>
               \A i \in 1..Len(oh_variable) :
                   result[i] = IF i \in ExtremePositions(mode, oh_variable)
                               THEN IF mode \in {"MAX_ABS_VAL", "MIN_ABS_VAL"}
                                    THEN oh_variable[i] ELSE 1
                               ELSE 0

\* C20: in the modes PROB and PROB_INDICATOR, with probabilities that sum to 1,
\* every draw selects one position: the result is non-zero in at most one
\* position (exactly one in PROB_INDICATOR), and never in a position whose
\* probability is 0.
C20_ProbSelectsOnePosition ==
    (oh_pc = "returned" /\ mode \in ProbModes) =>
        LET nonzero == {i \in 1..Len(result) : result[i] # 0}
        IN  /\ Len(result) = Len(oh_variable)
            /\ Cardinality(nonzero) <= 1
            /\ mode = "PROB_INDICATOR" => Cardinality(nonzero) = 1
            /\ \A i \in nonzero : prob_dist[i] > 0

(***************************************************************************)
(* ControlMechanism.get_next_sim_id and the property _sim_count_lock,      *)
(* called from several threads on one ControlMechanism.  A step is one     *)
(* access to the state the threads share: the attribute __sim_count_lock,  *)
(* a Lock object, the dict _sim_counts.                                    *)
(***************************************************************************)
ExecutionIds == {"e1", "e2"}
EID_SIMULATION == "-sim"

SimCalls ==
    Len(sim_ids) + Cardinality({t \in SimThreads : sim_threads[t].pc # "idle"})

InitSim ==
    /\ CtlIdle
    /\ MeshIdle
    /\ GAIdle
    /\ CMIdle
    /\ CHMIdle
    /\ OneHotIdle
    /\ SimIdle

SimStep(t, new) ==
    /\ sim_threads' = [sim_threads EXCEPT ![t] = new]
    /\ UNCHANGED <<ctlVars, meshVars, gaVars, cmVars, chmVars, ohVars>>

\* a thread calls get_next_sim_id(context)
Sim_Call(t) ==
    /\ sim_threads[t].pc = "idle"
    /\ SimCalls < MaxCalls
    /\ \E eid \in ExecutionIds :
          SimStep(t, [NotCalling EXCEPT !.pc = "get_lock", !.execution_id = eid])
    /\ UNCHANGED <<sim_count_lock, sim_locks, sim_counts, sim_ids>>

\* _sim_count_lock: try: return self.__sim_count_lock / except AttributeError
Sim_GetLock(t) ==
    /\ sim_threads[t].pc = "get_lock"
    /\ IF sim_count_lock # 0
       THEN SimStep(t, [sim_threads[t] EXCEPT !.pc = "acquire", !.lock = sim_count_lock])
       ELSE SimStep(t, [sim_threads[t] EXCEPT !.pc = "create_lock"])
    /\ UNCHANGED <<sim_count_lock, sim_locks, sim_counts, sim_ids>>

\* self.__sim_count_lock = threading.Lock(): a new Lock object, whatever the
\* attribute holds by now
Sim_CreateLock(t) ==
    /\ sim_threads[t].pc = "create_lock"
    /\ sim_count_lock' = t
    /\ SimStep(t, [sim_threads[t] EXCEPT !.pc = "return_lock"])
    /\ UNCHANGED <<sim_locks, sim_counts, sim_ids>>

\* return self.__sim_count_lock, in the except branch
Sim_ReturnLock(t) ==
    /\ sim_threads[t].pc = "return_lock"
    /\ SimStep(t, [sim_threads[t] EXCEPT !.pc = "acquire", !.lock = sim_count_lock])
    /\ UNCHANGED <<sim_count_lock, sim_locks, sim_counts, sim_ids>>

\* with <lock>: blocks while the Lock object is held
Sim_Acquire(t) ==
    /\ sim_threads[t].pc = "acquire"
    /\ sim_locks[sim_threads[t].lock] = 0
    /\ sim_locks' = [sim_locks EXCEPT ![sim_threads[t].lock] = t]
    /\ SimStep(t, [sim_threads[t] EXCEPT !.pc = "read_count"])
    /\ UNCHANGED <<sim_count_lock, sim_counts, sim_ids>>

\* sim_num = self._sim_counts[context.execution_id], or KeyError
Sim_ReadCount(t) ==
    /\ sim_threads[t].pc = "read_count"
    /\ IF sim_threads[t].execution_id \in DOMAIN sim_counts
       THEN SimStep(t, [sim_threads[t] EXCEPT
                           !.pc = "increment_read",
                           !.sim_num = sim_counts[sim_threads[t].execution_id]])
       ELSE SimStep(t, [sim_threads[t] EXCEPT !.pc = "key_error"])
    /\ UNCHANGED <<sim_count_lock, sim_locks, sim_counts, sim_ids>>

\* self._sim_counts[context.execution_id] += 1: the read
Sim_IncrementRead(t) ==
    /\ sim_threads[t].pc = "increment_read"
    /\ SimStep(t, [sim_threads[t] EXCEPT
                      !.pc = "increment_write",
                      !.count = sim_counts[sim_threads[t].execution_id]])
    /\ UNCHANGED <<sim_count_lock, sim_locks, sim_counts, sim_ids>>

\* self._sim_counts[context.execution_id] += 1: the write
Sim_IncrementWrite(t) ==
    /\ sim_threads[t].pc = "increment_write"
    /\ sim_counts' = [sim_counts EXCEPT
                         ![sim_threads[t].execution_id] = sim_threads[t].count + 1]
    /\ SimStep(t, [sim_threads[t] EXCEPT !.pc = "release"])
    /\ UNCHANGED <<sim_count_lock, sim_locks, sim_ids>>

\* except KeyError: sim_num = 0; self._sim_counts[context.execution_id] = 1
Sim_KeyError(t) ==
    /\ sim_threads[t].pc = "key_error"
    /\ sim_counts' = [e \in DOMAIN sim_counts \cup {sim_threads[t].execution_id} |->
                         IF e = sim_threads[t].execution_id THEN 1 ELSE sim_counts[e]]
    /\ SimStep(t, [sim_threads[t] EXCEPT !.pc = "release", !.sim_num = 0])
    /\ UNCHANGED <<sim_count_lock, sim_locks, sim_ids>>

\* the end of the with block releases the Lock object
Sim_Release(t) ==
    /\ sim_threads[t].pc = "release"
    /\ sim_locks' = [sim_locks EXCEPT ![sim_threads[t].lock] = 0]
    /\ SimStep(t, [sim_threads[t] EXCEPT !.pc = "return"])
    /\ UNCHANGED <<sim_count_lock, sim_counts, sim_ids>>

\* return '{0}{1}-{2}'.format(context.execution_id, EID_SIMULATION, sim_num)
Sim_Return(t) ==
    /\ sim_threads[t].pc = "return"
    /\ sim_ids' = Append(sim_ids, [execution_id |-> sim_threads[t].execution_id,
                                   infix |-> EID_SIMULATION,
                                   sim_num |-> sim_threads[t].sim_num])
    /\ SimStep(t, NotCalling)
    /\ UNCHANGED <<sim_count_lock, sim_locks, sim_counts>>

NextSim ==
    \E t \in SimThreads :
        \/ Sim_Call(t)
        \/ Sim_GetLock(t)
        \/ Sim_CreateLock(t)
        \/ Sim_ReturnLock(t)
        \/ Sim_Acquire(t)
        \/ Sim_ReadCount(t)
        \/ Sim_IncrementRead(t)
        \/ Sim_IncrementWrite(t)
        \/ Sim_KeyError(t)
        \/ Sim_Release(t)
        \/ Sim_Return(t)

SpecSim == InitSim /\ [][NextSim]_vars

\* the numeric suffixes of the ids returned for one execution id
SuffixesOf(eid) ==
    {sim_ids[i].sim_num : i \in {k \in 1..Len(sim_ids) : sim_ids[k].execution_id = eid}}

ReturnedFor(eid) ==
    Cardinality({k \in 1..Len(sim_ids) : sim_ids[k].execution_id = eid})

\* C24: under every interleaving of concurrent get_next_sim_id calls, the first
\* calls included, the ids returned for one execution id are pairwise distinct
\* and, once no call is in progress, their suffixes are exactly 0, 1, 2, ...;
\* the execution ids are counted separately.
C24_SimulationIdsAreDistinct ==
    /\ \A a, b \in 1..Len(sim_ids) : (a # b) => (sim_ids[a] # sim_ids[b])
    /\ (\A t \in SimThreads : sim_threads[t].pc = "idle") =>
           \A eid \in ExecutionIds :
               SuffixesOf(eid) = {n \in 0..MaxCalls : n < ReturnedFor(eid)}

====
